---- MODULE Spec2Model ----
(***************************************************************************)
(* Hotel booking server: the availability / overlap reservation core.     *)
(*                                                                         *)
(* src/index.js holds two builds of the same server: one on better-sqlite3 *)
(* (lines 1-197), whose handlers are synchronous and so run to completion  *)
(* one at a time, and one on MongoDB/mongoose (lines 199-452), whose       *)
(* handlers are async functions that give up control at every await.      *)
(* The variable `variant` says which build is running; it is fixed at     *)
(* start-up.                                                               *)
(*                                                                         *)
(* Dates are ISO yyyy-mm-dd strings compared as strings.  They are        *)
(* modelled as the integers 0..MaxDate under their usual order; 0 stands  *)
(* for the empty string, which is both the least string and falsy in JS,  *)
(* so it is what a missing date looks like to the handlers.  A room id of *)
(* 0 is likewise the falsy (missing) room id.                             *)
(***************************************************************************)
EXTENDS Integers, Sequences, FiniteSets, Bags, TLC

VARIABLES variant, rooms, bookings, today, resp, pending,
          boot, users, registering, cached, promises, calls, probe

\* what the reservation handlers never touch: the start-up bookkeeping, the
\* user accounts, the connection cache of src/lib/db.js and the scratch
\* record on which datesOverlap is evaluated by itself
aux == <<boot, users, registering, cached, promises, calls, probe>>

vars == <<variant, rooms, bookings, today, resp, pending, aux>>

(* ------------------------------ bounds -------------------------------- *)
MaxDate == 3
MaxUser == 2
MaxReqRoom == 1
MaxBookings == 2
MaxToday == 2
MaxGuests == 3
MaxInFlight == 2

Dates == 0..MaxDate
Users == 1..MaxUser
Guests == 0..MaxGuests
BookingIds == 1..(MaxBookings + 1)

(* ------------------------------ catalog ------------------------------- *)
SeedRooms ==
    << [name |-> "Standard Room", pricePerNight |-> 79,  capacity |-> 2],
       [name |-> "Deluxe Room",   pricePerNight |-> 129, capacity |-> 3],
       [name |-> "Family Suite",  pricePerNight |-> 199, capacity |-> 5] >>

\* the seeding without its count: the three rooms are inserted at every start
SeedIfEmpty_Always(rs) == rs \o SeedRooms

\* seed only when the catalog is empty
SeedIfEmpty(rs) == IF Len(rs) = 0 THEN SeedRooms ELSE rs

\* room ids a request may name: 0 (missing), seeded rooms, and one id that
\* names no room
ReqRoomIds == (0..MaxReqRoom) \cup {Len(SeedRooms) + 1}

RoomExists(rs, roomId) == roomId \in 1..Len(rs)

(* ------------------------------ helpers ------------------------------- *)
\* the comparison with the strict order where the code has <=
datesOverlap_Strict(aStart, aEnd, bStart, bEnd) ==
    ~(aEnd < bStart \/ bEnd <= aStart)

datesOverlap(aStart, aEnd, bStart, bEnd) ==
    ~(aEnd <= bStart \/ bEnd <= aStart)

\* the insert with its two date parameters bound the wrong way round
Booking_SwappedDates(u, roomId, checkIn, checkOut) ==
    [userId |-> u, roomId |-> roomId, checkIn |-> checkOut,
     checkOut |-> checkIn, status |-> "confirmed"]

Booking(u, roomId, checkIn, checkOut) ==
    [userId |-> u, roomId |-> roomId, checkIn |-> checkIn,
     checkOut |-> checkOut, status |-> "confirmed"]

\* the last exchange: the operation, the HTTP status and error text answered,
\* the rooms of a search result and the rows of a booking list; for a cancel also the requesting user and
\* the booking id asked for; for a createBooking that succeeded also the
\* requesting user, the room and dates asked for and the id of the new booking
Response(op, status, error) ==
    [op |-> op, status |-> status, error |-> error, rooms |-> {},
     bookings |-> << >>, userId |-> 0, roomId |-> 0, checkIn |-> 0, checkOut |-> 0, bookingId |-> 0]

CreatedResponse(u, roomId, checkIn, checkOut, id) ==
    [Response("create", 200, "") EXCEPT !.userId = u, !.roomId = roomId,
        !.checkIn = checkIn, !.checkOut = checkOut, !.bookingId = id]

CancelResponse(u, id, status, error) ==
    [Response("cancel", status, error) EXCEPT !.userId = u, !.bookingId = id]

\* Booking.findOne({ roomId, status: "confirmed",
\*   $nor: [ {checkIn: {$gte: checkOut}}, {checkOut: {$lte: checkIn}} ] })
MongoFindOverlapping(bs, roomId, checkIn, checkOut) ==
    { i \in 1..Len(bs) :
        /\ bs[i].roomId = roomId
        /\ bs[i].status = "confirmed"
        /\ ~(bs[i].checkIn >= checkOut \/ bs[i].checkOut <= checkIn) }

\* a handler of the MongoDB build suspended at its last await, with the write
\* it has issued: Booking.create(...) or booking.save()
PendingCreate(u, roomId, checkIn, checkOut) ==
    [op |-> "create", userId |-> u, roomId |-> roomId, checkIn |-> checkIn,
     checkOut |-> checkOut, bookingId |-> 0]

PendingSave(u, id) ==
    [op |-> "cancel", userId |-> u, roomId |-> 0, checkIn |-> 0,
     checkOut |-> 0, bookingId |-> id]

InFlight(op) == { p \in BagToSet(pending) : p.op = op }

NumInFlight(op) ==
    LET ps == InFlight(op)
        RECURSIVE Sum(_)
        Sum(S) == IF S = {} THEN 0
                  ELSE LET x == CHOOSE y \in S : TRUE
                       IN  CopiesIn(x, pending) + Sum(S \ {x})
    IN  Sum(ps)

\* WHERE roomId = ? AND status = 'confirmed'
\*   AND NOT (? <= checkIn OR checkOut <= ?)      bound to (roomId, checkIn, checkOut)
SqlOverlapCount(bs, roomId, checkIn, checkOut) ==
    Cardinality({ i \in 1..Len(bs) :
        /\ bs[i].roomId = roomId
        /\ bs[i].status = "confirmed"
        /\ ~(checkIn <= bs[i].checkIn \/ bs[i].checkOut <= checkOut) })

\* the filter without its roomBookings step: a confirmed booking of any room
\* counts against every room
AvailableRooms_AnyRoom(rs, bs, checkIn, checkOut, g) ==
    { r \in 1..Len(rs) :
        /\ rs[r].capacity >= g
        /\ ~ \E i \in 1..Len(bs) :
              /\ bs[i].status = "confirmed"
              /\ datesOverlap(checkIn, checkOut, bs[i].checkIn, bs[i].checkOut) }

\* available rooms of the search handlers: capacity >= g and no confirmed
\* booking of the room overlapping [checkIn, checkOut)
AvailableRooms(rs, bs, checkIn, checkOut, g) ==
    { r \in 1..Len(rs) :
        /\ rs[r].capacity >= g
        /\ ~ \E i \in 1..Len(bs) :
              /\ bs[i].status = "confirmed"
              /\ bs[i].roomId = r
              /\ datesOverlap(checkIn, checkOut, bs[i].checkIn, bs[i].checkOut) }

(* ------------------------------- Init --------------------------------- *)
MaxCallers == 4

Callers == 1..MaxCallers

\* a caller of dbConnect: where it stands, the promise it awaits (its place
\* in `promises`, 0 for none) and the connection it was handed (0 for none)
Call(pc, awaited, result) == [pc |-> pc, awaited |-> awaited, result |-> result]

\* cached = global.mongoose = { conn: null, promise: null }; null is 0
EmptyCache == [conn |-> 0, promise |-> 0]

\* the four arguments of one evaluation of datesOverlap, and its value once
\* it has been evaluated
Probe(aStart, aEnd, bStart, bEnd) ==
    [aStart |-> aStart, aEnd |-> aEnd, bStart |-> bStart, bEnd |-> bEnd,
     done |-> FALSE, result |-> FALSE]

\* the stores as the first start of the process leaves them: the catalog
\* seeded by one bootstrap, no booking, no request answered yet
LedgerInit ==
    /\ variant \in {"sqlite", "mongo"}
    /\ rooms = SeedIfEmpty(<< >>)
    /\ boot = [runs |-> 1, seeding |-> FALSE]
    /\ bookings = << >>
    /\ today = 1
    /\ resp = Response("none", 0, "")
    /\ pending = EmptyBag

\* no account yet, no register request under way
AccountsInit ==
    /\ users = << >>
    /\ registering = EmptyBag

\* the MongoDB build awaits dbConnect() at module level before it serves a
\* request, so it starts with the one connection cached; the better-sqlite3
\* build never loads src/lib/db.js
ConnectionInit ==
    /\ cached = IF variant = "mongo" THEN [conn |-> 1, promise |-> 1] ELSE EmptyCache
    /\ promises = IF variant = "mongo" THEN << "resolved" >> ELSE << >>
    /\ calls = [c \in Callers |-> Call("idle", 0, 0)]

Init ==
    /\ LedgerInit
    /\ AccountsInit
    /\ ConnectionInit
    /\ probe = Probe(0, 0, 0, 0)

(* ----------------------- better-sqlite3 handlers ---------------------- *)
\* the handler with its room lookup ahead of its check of the fields
SCreateBooking_RoomFirst(u, roomId, checkIn, checkOut, contact) ==
    /\ variant = "sqlite"
    /\ UNCHANGED <<aux, variant, rooms, today, pending>>
    /\ IF ~RoomExists(rooms, roomId)
       THEN /\ resp' = Response("create", 404, "Room not found")
            /\ UNCHANGED bookings
       ELSE IF roomId = 0 \/ checkIn = 0 \/ checkOut = 0 \/ ~contact
       THEN /\ resp' = Response("create", 400, "Missing fields")
            /\ UNCHANGED bookings
       ELSE IF SqlOverlapCount(bookings, roomId, checkIn, checkOut) > 0
       THEN /\ resp' = Response("create", 409, "Room no longer available for those dates")
            /\ UNCHANGED bookings
       ELSE /\ Len(bookings) < MaxBookings
            /\ bookings' = Append(bookings, Booking(u, roomId, checkIn, checkOut))
            /\ resp' = CreatedResponse(u, roomId, checkIn, checkOut, Len(bookings) + 1)

\* POST /api/bookings
SCreateBooking(u, roomId, checkIn, checkOut, contact) ==
    /\ variant = "sqlite"
    /\ UNCHANGED <<aux, variant, rooms, today, pending>>
    /\ IF roomId = 0 \/ checkIn = 0 \/ checkOut = 0 \/ ~contact
       THEN /\ resp' = Response("create", 400, "Missing fields")
            /\ UNCHANGED bookings
       ELSE IF ~RoomExists(rooms, roomId)
       THEN /\ resp' = Response("create", 404, "Room not found")
            /\ UNCHANGED bookings
       ELSE IF SqlOverlapCount(bookings, roomId, checkIn, checkOut) > 0
       THEN /\ resp' = Response("create", 409, "Room no longer available for those dates")
            /\ UNCHANGED bookings
       ELSE /\ Len(bookings) < MaxBookings
            /\ bookings' = Append(bookings, Booking(u, roomId, checkIn, checkOut))
            /\ resp' = CreatedResponse(u, roomId, checkIn, checkOut, Len(bookings) + 1)

\* GET /api/rooms/search
SSearch(checkIn, checkOut, guests) ==
    /\ variant = "sqlite"
    /\ UNCHANGED <<aux, variant, rooms, bookings, today, pending>>
    /\ IF checkIn = 0 \/ checkOut = 0
       THEN resp' = Response("search", 400, "checkIn & checkOut required")
       ELSE LET g == IF guests = 0 THEN 1 ELSE guests
            IN  resp' = [Response("search", 200, "") EXCEPT
                           !.rooms = AvailableRooms(rooms, bookings, checkIn, checkOut, g)]

\* the cancel as a DELETE of the row instead of an UPDATE of its status
SCancel_Delete(u, id) ==
    /\ variant = "sqlite"
    /\ UNCHANGED <<aux, variant, rooms, today, pending>>
    /\ IF id \notin 1..Len(bookings) \/ bookings[id].userId # u
       THEN /\ resp' = CancelResponse(u, id, 404, "Booking not found")
            /\ UNCHANGED bookings
       ELSE IF bookings[id].status # "confirmed"
       THEN /\ resp' = CancelResponse(u, id, 400, "Cannot cancel this booking")
            /\ UNCHANGED bookings
       ELSE IF bookings[id].checkIn <= today
       THEN /\ resp' = CancelResponse(u, id, 400, "Cannot cancel past or ongoing stays")
            /\ UNCHANGED bookings
       ELSE /\ bookings' = SubSeq(bookings, 1, id - 1) \o SubSeq(bookings, id + 1, Len(bookings))
            /\ resp' = CancelResponse(u, id, 200, "")

\* the cancel with the status check made before the ownership check
SCancel_StatusFirst(u, id) ==
    /\ variant = "sqlite"
    /\ UNCHANGED <<aux, variant, rooms, today, pending>>
    /\ IF id \notin 1..Len(bookings)
       THEN /\ resp' = CancelResponse(u, id, 404, "Booking not found")
            /\ UNCHANGED bookings
       ELSE IF bookings[id].status # "confirmed"
       THEN /\ resp' = CancelResponse(u, id, 400, "Cannot cancel this booking")
            /\ UNCHANGED bookings
       ELSE IF bookings[id].userId # u
       THEN /\ resp' = CancelResponse(u, id, 404, "Booking not found")
            /\ UNCHANGED bookings
       ELSE IF bookings[id].checkIn <= today
       THEN /\ resp' = CancelResponse(u, id, 400, "Cannot cancel past or ongoing stays")
            /\ UNCHANGED bookings
       ELSE /\ bookings' = [bookings EXCEPT ![id].status = "cancelled"]
            /\ resp' = CancelResponse(u, id, 200, "")

\* PATCH /api/bookings/:id/cancel
SCancel(u, id) ==
    /\ variant = "sqlite"
    /\ UNCHANGED <<aux, variant, rooms, today, pending>>
    /\ IF id \notin 1..Len(bookings) \/ bookings[id].userId # u
       THEN /\ resp' = CancelResponse(u, id, 404, "Booking not found")
            /\ UNCHANGED bookings
       ELSE IF bookings[id].status # "confirmed"
       THEN /\ resp' = CancelResponse(u, id, 400, "Cannot cancel this booking")
            /\ UNCHANGED bookings
       ELSE IF bookings[id].checkIn <= today
       THEN /\ resp' = CancelResponse(u, id, 400, "Cannot cancel past or ongoing stays")
            /\ UNCHANGED bookings
       ELSE /\ bookings' = [bookings EXCEPT ![id].status = "cancelled"]
            /\ resp' = CancelResponse(u, id, 200, "")

(* -------------------------- MongoDB handlers --------------------------- *)
\* POST /api/bookings, up to the await of Booking.create: the field check,
\* Room.findById and Booking.findOne.  The catalog never changes, so the two
\* reads are taken together; the insert is a later step.
MCreateCheck(u, roomId, checkIn, checkOut, contact) ==
    /\ variant = "mongo"
    /\ UNCHANGED <<aux, variant, rooms, bookings, today>>
    /\ IF roomId = 0 \/ checkIn = 0 \/ checkOut = 0 \/ ~contact
       THEN /\ resp' = Response("create", 400, "Missing fields")
            /\ UNCHANGED pending
       ELSE IF ~RoomExists(rooms, roomId)
       THEN /\ resp' = Response("create", 404, "Room not found")
            /\ UNCHANGED pending
       ELSE IF MongoFindOverlapping(bookings, roomId, checkIn, checkOut) # {}
       THEN /\ resp' = Response("create", 409, "Room no longer available for those dates")
            /\ UNCHANGED pending
       ELSE /\ BagCardinality(pending) < MaxInFlight
            /\ Len(bookings) + NumInFlight("create") < MaxBookings
            /\ pending' = pending (+) SetToBag({PendingCreate(u, roomId, checkIn, checkOut)})
            /\ UNCHANGED resp

\* Booking.create completes and the handler answers { booking, room }
MCreateInsert(p) ==
    /\ variant = "mongo"
    /\ p \in InFlight("create")
    /\ bookings' = Append(bookings, Booking(p.userId, p.roomId, p.checkIn, p.checkOut))
    /\ pending' = pending (-) SetToBag({p})
    /\ resp' = CreatedResponse(p.userId, p.roomId, p.checkIn, p.checkOut, Len(bookings) + 1)
    /\ UNCHANGED <<aux, variant, rooms, today>>

\* GET /api/rooms/search: Room.find and Booking.find
MSearch(checkIn, checkOut, guests) ==
    /\ variant = "mongo"
    /\ UNCHANGED <<aux, variant, rooms, bookings, today, pending>>
    /\ IF checkIn = 0 \/ checkOut = 0
       THEN resp' = Response("search", 400, "checkIn & checkOut required")
       ELSE LET g == IF guests = 0 THEN 1 ELSE guests
            IN  resp' = [Response("search", 200, "") EXCEPT
                           !.rooms = AvailableRooms(rooms, bookings, checkIn, checkOut, g)]

\* the date guard written with < : a stay that starts today passes it
MCancelFind_Strict(u, id) ==
    /\ variant = "mongo"
    /\ UNCHANGED <<aux, variant, rooms, bookings, today>>
    /\ IF id \notin 1..Len(bookings) \/ bookings[id].userId # u
       THEN /\ resp' = CancelResponse(u, id, 404, "Booking not found")
            /\ UNCHANGED pending
       ELSE IF bookings[id].status # "confirmed"
       THEN /\ resp' = CancelResponse(u, id, 400, "Cannot cancel this booking")
            /\ UNCHANGED pending
       ELSE IF bookings[id].checkIn < today
       THEN /\ resp' = CancelResponse(u, id, 400, "Cannot cancel past or ongoing stays")
            /\ UNCHANGED pending
       ELSE /\ BagCardinality(pending) < MaxInFlight
            /\ pending' = pending (+) SetToBag({PendingSave(u, id)})
            /\ UNCHANGED resp

\* PATCH /api/bookings/:id/cancel, up to the await of booking.save():
\* Booking.findById and the three checks on the document read
MCancelFind(u, id) ==
    /\ variant = "mongo"
    /\ UNCHANGED <<aux, variant, rooms, bookings, today>>
    /\ IF id \notin 1..Len(bookings) \/ bookings[id].userId # u
       THEN /\ resp' = CancelResponse(u, id, 404, "Booking not found")
            /\ UNCHANGED pending
       ELSE IF bookings[id].status # "confirmed"
       THEN /\ resp' = CancelResponse(u, id, 400, "Cannot cancel this booking")
            /\ UNCHANGED pending
       ELSE IF bookings[id].checkIn <= today
       THEN /\ resp' = CancelResponse(u, id, 400, "Cannot cancel past or ongoing stays")
            /\ UNCHANGED pending
       ELSE /\ BagCardinality(pending) < MaxInFlight
            /\ pending' = pending (+) SetToBag({PendingSave(u, id)})
            /\ UNCHANGED resp

\* booking.save() writes the modified path, status, and the handler answers
MCancelSave(p) ==
    /\ variant = "mongo"
    /\ p \in InFlight("cancel")
    /\ bookings' = [bookings EXCEPT ![p.bookingId].status = "cancelled"]
    /\ pending' = pending (-) SetToBag({p})
    /\ resp' = CancelResponse(p.userId, p.bookingId, 200, "")
    /\ UNCHANGED <<aux, variant, rooms, today>>

(* ------------------------------- clock -------------------------------- *)
\* new Date().toISOString().slice(0,10) moves on to the next calendar day
Tick ==
    /\ today < MaxToday
    /\ today' = today + 1
    /\ UNCHANGED <<aux, variant, rooms, bookings, resp, pending>>

Next ==
    \/ \E u \in Users, roomId \in ReqRoomIds, checkIn \in Dates, checkOut \in Dates,
          contact \in BOOLEAN : SCreateBooking(u, roomId, checkIn, checkOut, contact)
    \/ \E checkIn \in Dates, checkOut \in Dates, guests \in Guests :
          SSearch(checkIn, checkOut, guests)
    \/ \E u \in Users, id \in BookingIds : SCancel(u, id)
    \/ \E u \in Users, roomId \in ReqRoomIds, checkIn \in Dates, checkOut \in Dates,
          contact \in BOOLEAN : MCreateCheck(u, roomId, checkIn, checkOut, contact)
    \/ \E p \in BagToSet(pending) : MCreateInsert(p)
    \/ \E checkIn \in Dates, checkOut \in Dates, guests \in Guests :
          MSearch(checkIn, checkOut, guests)
    \/ \E u \in Users, id \in BookingIds : MCancelFind(u, id)
    \/ \E p \in BagToSet(pending) : MCancelSave(p)
    \/ Tick

Spec == Init /\ [][Next]_vars

(* ---------------- one user rebooking one room, wider dates ------------- *)
\* The better-sqlite3 build driven by a single user who books and cancels
\* room 1 with complete requests, over a date range wide enough to hold a
\* cancellable stay that strictly contains another stay.
MaxDateWide == 5

InitRebook == Init /\ variant = "sqlite"

NextRebook ==
    \/ \E checkIn \in 1..MaxDateWide, checkOut \in 1..MaxDateWide :
          SCreateBooking(1, 1, checkIn, checkOut, TRUE)
    \/ \E id \in 1..MaxBookings : SCancel(1, id)

SpecRebook == InitRebook /\ [][NextRebook]_vars

(* ============================== properties ============================ *)
Confirmed(bs, roomId) ==
    { i \in 1..Len(bs) : bs[i].roomId = roomId /\ bs[i].status = "confirmed" }

Cancelled(bs, roomId) ==
    { i \in 1..Len(bs) : bs[i].roomId = roomId /\ bs[i].status = "cancelled" }

\* the ids among S whose range overlaps [checkIn, checkOut) by the overlap rule
Overlapping(bs, S, checkIn, checkOut) ==
    { i \in S : ~(checkOut <= bs[i].checkIn \/ bs[i].checkOut <= checkIn) }

NoDoubleBooking ==
    \A i \in 1..Len(bookings), j \in 1..Len(bookings) :
        (/\ i # j
         /\ bookings[i].roomId = bookings[j].roomId
         /\ bookings[i].status = "confirmed"
         /\ bookings[j].status = "confirmed")
        => (bookings[i].checkOut <= bookings[j].checkIn
            \/ bookings[j].checkOut <= bookings[i].checkIn)

AllDates == 1..(IF MaxDate > MaxDateWide THEN MaxDate ELSE MaxDateWide)

\* C1: whatever the interleaving of createBooking requests whose conflict
\* check and insert are separate steps (the MongoDB handler), the confirmed
\* bookings of a room never overlap pairwise.
C1_NoOverlapUnderInterleaving ==
    variant = "mongo" => NoDoubleBooking

\* C2: when every createBooking and cancel runs atomically (the
\* better-sqlite3 handlers), the confirmed bookings of every room are
\* pairwise non-overlapping in every reachable state.
C2_NoDoubleBookingAtomic ==
    variant = "sqlite" => NoDoubleBooking

\* C3: a complete createBooking request for an existing room on which some
\* confirmed booking overlaps the requested range is answered 409 Conflict
\* and inserts nothing, in both builds.
C3_OverlapGivesConflict ==
    [][\A u \in Users, roomId \in ReqRoomIds \ {0}, checkIn \in AllDates, checkOut \in AllDates :
        (/\ RoomExists(rooms, roomId)
         /\ Overlapping(bookings, Confirmed(bookings, roomId), checkIn, checkOut) # {})
        => /\ SCreateBooking(u, roomId, checkIn, checkOut, TRUE)
                => (resp'.status = 409 /\ bookings' = bookings)
           /\ MCreateCheck(u, roomId, checkIn, checkOut, TRUE)
                => (resp'.status = 409 /\ bookings' = bookings /\ pending' = pending)
      ]_vars

\* C4: a complete createBooking request for an existing room on which no
\* confirmed booking overlaps the requested range succeeds and inserts a
\* confirmed booking (in the MongoDB build: passes the check and issues the
\* insert); touching ranges are such a case.
C4_FreeRangeSucceeds ==
    [][\A u \in Users, roomId \in ReqRoomIds \ {0}, checkIn \in AllDates, checkOut \in AllDates :
        (/\ RoomExists(rooms, roomId)
         /\ Overlapping(bookings, Confirmed(bookings, roomId), checkIn, checkOut) = {})
        => /\ SCreateBooking(u, roomId, checkIn, checkOut, TRUE)
                => (/\ resp'.status = 200
                    /\ Len(bookings') = Len(bookings) + 1
                    /\ bookings'[Len(bookings')].status = "confirmed")
           /\ MCreateCheck(u, roomId, checkIn, checkOut, TRUE)
                => pending' = pending (+) SetToBag({PendingCreate(u, roomId, checkIn, checkOut)})
      ]_vars

\* C5: bookings are created confirmed; the only status change is
\* confirmed -> cancelled and only a cancel makes it; a cancelled booking
\* stays cancelled; no booking is ever removed or otherwise altered.
C5_StatusStateMachine ==
    [][/\ Len(bookings') >= Len(bookings)
       /\ \A i \in 1..Len(bookings) :
            \/ bookings'[i] = bookings[i]
            \/ /\ bookings[i].status = "confirmed"
               /\ bookings'[i] = [bookings[i] EXCEPT !.status = "cancelled"]
               /\ resp'.op = "cancel" /\ resp'.status = 200 /\ resp'.bookingId = i
               /\ \/ \E u \in Users : SCancel(u, i)
                  \/ \E p \in InFlight("cancel") : MCancelSave(p)
       /\ \A i \in (Len(bookings) + 1)..Len(bookings') :
            bookings'[i].status = "confirmed"
      ]_vars

C5_Witness ==
    /\ Len(bookings) = 2
    /\ bookings[1].status = "cancelled"
    /\ bookings[2].status = "confirmed"
    /\ resp.op = "cancel" /\ resp.status = 400 /\ resp.bookingId = 1
    /\ resp.error = "Cannot cancel this booking"

\* C6: right after a booking B is successfully cancelled, a search for B's
\* dates with guests within the capacity of B's room lists B's room.
C6_CancelFreesRoom ==
    [][\A u \in Users, id \in BookingIds :
        (/\ SCancel(u, id) \/ MCancelSave(PendingSave(u, id))
         /\ resp' = CancelResponse(u, id, 200, ""))
        => \A g \in 1..rooms[bookings[id].roomId].capacity :
              bookings[id].roomId \in
                 AvailableRooms(rooms', bookings', bookings[id].checkIn,
                                bookings[id].checkOut, g)
      ]_vars

\* C7: a complete createBooking request for a room whose range overlaps a
\* cancelled booking of the room and no confirmed one succeeds.
C7_CancelledNeverConflicts ==
    [][\A u \in Users, roomId \in ReqRoomIds \ {0}, checkIn \in AllDates, checkOut \in AllDates :
        (/\ RoomExists(rooms, roomId)
         /\ Overlapping(bookings, Cancelled(bookings, roomId), checkIn, checkOut) # {}
         /\ Overlapping(bookings, Confirmed(bookings, roomId), checkIn, checkOut) = {})
        => /\ SCreateBooking(u, roomId, checkIn, checkOut, TRUE)
                => (/\ resp'.status = 200
                    /\ bookings' = Append(bookings, Booking(u, roomId, checkIn, checkOut)))
           /\ MCreateCheck(u, roomId, checkIn, checkOut, TRUE)
                => pending' = pending (+) SetToBag({PendingCreate(u, roomId, checkIn, checkOut)})
      ]_vars

\* a handler answered in this step without leaving a write in flight
Answered(op) ==
    today' = today /\ pending' = pending /\ resp'.op = op

\* the writes a handler of the MongoDB build issued, or saw completed, in
\* this step
Issued(op) ==
    { p \in BagToSet(pending') : p.op = op /\ CopiesIn(p, pending') > CopiesIn(p, pending) }

Completed(op) ==
    { p \in BagToSet(pending) : p.op = op /\ CopiesIn(p, pending') < CopiesIn(p, pending) }

Owned(bs, u, id) == id \in 1..Len(bs) /\ bs[id].userId = u

\* C8: a cancel by the owner of a confirmed booking is refused with 400
\* "past or ongoing" and changes nothing when checkIn <= today (checkIn =
\* today included), and otherwise succeeds and sets the status to cancelled
\* (in the MongoDB build: issues the save, which sets it and answers ok).
C8_CancelDateGuard ==
    [][/\ LET u == resp'.userId
              id == resp'.bookingId
          IN  (/\ Answered("cancel")
               /\ Owned(bookings, u, id)
               /\ bookings[id].status = "confirmed")
              => IF bookings[id].checkIn <= today
                 THEN /\ resp'.status = 400
                      /\ resp'.error = "Cannot cancel past or ongoing stays"
                      /\ bookings' = bookings
                 ELSE /\ variant = "sqlite"
                      /\ resp'.status = 200
                      /\ bookings' = [bookings EXCEPT ![id].status = "cancelled"]
       /\ \A p \in Issued("cancel") :
            /\ Owned(bookings, p.userId, p.bookingId)
            /\ bookings[p.bookingId].checkIn > today
            /\ bookings' = bookings
       /\ \A p \in Completed("cancel") :
            /\ resp' = CancelResponse(p.userId, p.bookingId, 200, "")
            /\ bookings' = [bookings EXCEPT ![p.bookingId].status = "cancelled"]
      ]_vars

\* a refused cancel of a stay that starts today, beside a stay starting
\* tomorrow that was cancelled
C8_Witness ==
    /\ resp.op = "cancel" /\ resp.status = 400
    /\ resp.error = "Cannot cancel past or ongoing stays"
    /\ Owned(bookings, resp.userId, resp.bookingId)
    /\ bookings[resp.bookingId].checkIn = today
    /\ bookings[resp.bookingId].status = "confirmed"
    /\ \E j \in 1..Len(bookings) :
          bookings[j].status = "cancelled" /\ bookings[j].checkIn = today + 1

\* C9: a cancel for a booking id owned by another user is answered exactly
\* as a cancel for an id that names no booking, 404 "Booking not found",
\* whatever that booking's status and dates, and changes nothing; no such
\* request ever gets as far as a write.
C9_OwnershipHiding ==
    [][/\ (/\ Answered("cancel")
           /\ ~Owned(bookings, resp'.userId, resp'.bookingId))
          => /\ resp' = CancelResponse(resp'.userId, resp'.bookingId, 404, "Booking not found")
             /\ bookings' = bookings
             /\ rooms' = rooms
       /\ \A p \in Issued("cancel") \cup Completed("cancel") :
             Owned(bookings, p.userId, p.bookingId)
      ]_vars

\* another user's cancelled booking was asked for and 404 was answered
C9_Witness ==
    /\ resp.op = "cancel" /\ resp.status = 404
    /\ resp.bookingId \in 1..Len(bookings)
    /\ bookings[resp.bookingId].userId # resp.userId
    /\ bookings[resp.bookingId].status = "cancelled"

\* C10: a createBooking request either inserts exactly one booking,
\* confirmed, owned by the requesting user, for the requested room and dates,
\* and leaves every other booking and every room as it was, or it answers
\* 400, 404 or 409 and leaves the ledger as it was.  (In the MongoDB build a
\* request that passes its checks changes nothing until its insert completes,
\* and the insert is of that request.)
C10_CreateAllOrNothing ==
    [][/\ rooms' = rooms
       /\ (Answered("create") \/ Completed("create") # {} \/ Len(bookings') # Len(bookings))
          => \/ /\ resp'.op = "create" /\ resp'.status \in {400, 404, 409}
                /\ bookings' = bookings
                /\ pending' = pending
             \/ /\ resp'.op = "create" /\ resp'.status = 200
                /\ resp'.userId \in Users
                /\ bookings' = Append(bookings,
                      [userId |-> resp'.userId, roomId |-> resp'.roomId,
                       checkIn |-> resp'.checkIn, checkOut |-> resp'.checkOut,
                       status |-> "confirmed"])
                /\ resp'.bookingId = Len(bookings')
                /\ \/ variant = "sqlite" /\ pending' = pending
                   \/ /\ variant = "mongo"
                      /\ pending = pending' (+) SetToBag({PendingCreate(resp'.userId,
                            resp'.roomId, resp'.checkIn, resp'.checkOut)})
       /\ Issued("create") # {} => bookings' = bookings
      ]_vars

\* a booking was inserted as the second one, beside an earlier booking of
\* the other user that is left as it was
C10_Witness ==
    /\ resp.op = "create" /\ resp.status = 200 /\ resp.bookingId = 2
    /\ Len(bookings) = 2
    /\ bookings[2] = Booking(resp.userId, resp.roomId, resp.checkIn, resp.checkOut)
    /\ bookings[1].userId # bookings[2].userId
    /\ bookings[1].status = "cancelled"

(* ---------------- datesOverlap evaluated by itself -------------------- *)
\* Four dates are drawn, in any order and with repeats, so degenerate and
\* inverted ranges and the empty string are among them; the one step applies
\* the function and keeps its value.
InitOverlap ==
    /\ LedgerInit
    /\ AccountsInit
    /\ ConnectionInit
    /\ \E aStart \in Dates, aEnd \in Dates, bStart \in Dates, bEnd \in Dates :
          probe = Probe(aStart, aEnd, bStart, bEnd)

EvalOverlap ==
    /\ ~probe.done
    /\ probe' = [probe EXCEPT !.done = TRUE,
                    !.result = datesOverlap(probe.aStart, probe.aEnd,
                                            probe.bStart, probe.bEnd)]
    /\ UNCHANGED <<variant, rooms, bookings, today, resp, pending,
                   boot, users, registering, cached, promises, calls>>

NextOverlap == EvalOverlap

SpecOverlap == InitOverlap /\ [][NextOverlap]_vars

\* C12: for every four dates, datesOverlap(aStart, aEnd, bStart, bEnd) is
\* the negation of "aEnd <= bStart or bEnd <= aStart"; exchanging the two
\* ranges gives the same value, degenerate and inverted ranges included; two
\* back-to-back one-night ranges [X, X+1) and [X+1, X+2) do not overlap.
C12_OverlapPredicate ==
    probe.done =>
        /\ probe.result <=> ~(probe.aEnd <= probe.bStart \/ probe.bEnd <= probe.aStart)
        /\ probe.result <=> datesOverlap(probe.bStart, probe.bEnd,
                                         probe.aStart, probe.aEnd)
        /\ (/\ probe.aEnd = probe.aStart + 1
            /\ probe.bStart = probe.aEnd
            /\ probe.bEnd = probe.bStart + 1) => ~probe.result

\* the function has answered for two back-to-back one-night ranges
C12_Witness ==
    /\ probe.done
    /\ probe.aStart >= 1
    /\ probe.aEnd = probe.aStart + 1
    /\ probe.bStart = probe.aEnd
    /\ probe.bEnd = probe.bStart + 1
    /\ ~probe.result

(* ------------- searching a catalog with two booked rooms -------------- *)
\* One user books and cancels rooms 1..MaxSearchRoom with complete requests
\* for well-ordered stays, and anyone searches with both dates, in either
\* order, and party sizes up to one more than the largest room holds.
MaxSearchRoom == 2
MaxSearchGuests == 6

SearchGuests == 0..MaxSearchGuests

InitSearch == Init

\* the stays asked for: one night or more, check-out after check-in
Stays == { s \in (1..MaxDate) \X (1..MaxDate) : s[1] < s[2] }

NextSearch ==
    \/ \E roomId \in 1..MaxSearchRoom, s \in Stays :
          SCreateBooking(1, roomId, s[1], s[2], TRUE)
    \/ \E id \in 1..MaxBookings : SCancel(1, id)
    \/ \E checkIn \in 1..MaxDate, checkOut \in 1..MaxDate, guests \in SearchGuests :
          SSearch(checkIn, checkOut, guests)
    \/ \E roomId \in 1..MaxSearchRoom, s \in Stays :
          MCreateCheck(1, roomId, s[1], s[2], TRUE)
    \/ \E p \in BagToSet(pending) : MCreateInsert(p)
    \/ \E id \in 1..MaxBookings : MCancelFind(1, id)
    \/ \E p \in BagToSet(pending) : MCancelSave(p)
    \/ \E checkIn \in 1..MaxDate, checkOut \in 1..MaxDate, guests \in SearchGuests :
          MSearch(checkIn, checkOut, guests)

SpecSearch == InitSearch /\ [][NextSearch]_vars

\* C11: a search with both dates answers 200 with exactly the rooms whose
\* capacity is at least the party size (1 when none is given) and on which
\* no confirmed booking overlaps the requested range; bookings of other
\* rooms and cancelled bookings exclude nothing; the result may be empty;
\* and the search changes neither the catalog nor the ledger.
C11_SearchExact ==
    [][\A checkIn \in 1..MaxDate, checkOut \in 1..MaxDate, guests \in SearchGuests :
          (SSearch(checkIn, checkOut, guests) \/ MSearch(checkIn, checkOut, guests)) =>
              /\ resp'.status = 200
              /\ resp'.error = ""
              /\ resp'.rooms =
                    { r \in 1..Len(rooms) :
                        /\ rooms[r].capacity >= (IF guests = 0 THEN 1 ELSE guests)
                        /\ Overlapping(bookings, Confirmed(bookings, r),
                                       checkIn, checkOut) = {} }
              /\ UNCHANGED <<rooms, bookings, pending, today, aux>>]_vars

\* a search left out room 1 for its confirmed booking and listed room 2,
\* whose only booking is cancelled
C11_Witness ==
    /\ resp.op = "search"
    /\ resp.status = 200
    /\ resp.rooms = {2, 3}
    /\ Confirmed(bookings, 1) # {}
    /\ Confirmed(bookings, 2) = {}
    /\ Cancelled(bookings, 2) # {}

(* --------------------------- booking list ----------------------------- *)
\* the bookings of user u, as row ids
OwnedBy(bs, u) == { i \in 1..Len(bs) : bs[i].userId = u }

\* one row of the list: the booking with its id, and the name and price of
\* its room (absent when the room is gone: the optional chaining of the
\* MongoDB build)
ListRow(rs, bs, i) ==
    [id |-> i, userId |-> bs[i].userId, roomId |-> bs[i].roomId,
     checkIn |-> bs[i].checkIn, checkOut |-> bs[i].checkOut,
     status |-> bs[i].status,
     roomName |-> IF RoomExists(rs, bs[i].roomId)
                  THEN rs[bs[i].roomId].name ELSE "",
     pricePerNight |-> IF RoomExists(rs, bs[i].roomId)
                       THEN rs[bs[i].roomId].pricePerNight ELSE 0]

\* the orders .sort({ checkIn: -1 }) may give the rows S: checkIn never
\* increases along the list; rows of equal checkIn come in any order
SortedByCheckInDesc(bs, S) ==
    { order \in [1..Cardinality(S) -> S] :
        /\ \A m \in 1..Cardinality(S), n \in 1..Cardinality(S) :
              m # n => order[m] # order[n]
        /\ \A m \in 1..Cardinality(S), n \in 1..Cardinality(S) :
              m < n => bs[order[m]].checkIn >= bs[order[n]].checkIn }

ListResponse(rows) == [Response("list", 200, "") EXCEPT !.bookings = rows]

\* GET /api/bookings, better-sqlite3 build: the statement names b.* and
\* b.roomId but its FROM clause gives the bookings table no alias b, so
\* db.prepare throws "no such table: b" and the handler answers nothing but
\* the framework's 500
SListBookings(u) ==
    /\ variant = "sqlite"
    /\ resp' = Response("list", 500, "no such table: b")
    /\ UNCHANGED <<aux, variant, rooms, bookings, today, pending>>

\* GET /api/bookings, MongoDB build: find by userId, populate, sort
MListBookings(u) ==
    /\ variant = "mongo"
    /\ \E order \in SortedByCheckInDesc(bookings, OwnedBy(bookings, u)) :
          resp' = ListResponse([m \in 1..Len(order) |->
                                   ListRow(rooms, bookings, order[m])])
    /\ UNCHANGED <<aux, variant, rooms, bookings, today, pending>>

InitList == Init

NextList ==
    \/ \E u \in Users, roomId \in 1..MaxSearchRoom, s \in Stays :
          SCreateBooking(u, roomId, s[1], s[2], TRUE)
    \/ \E u \in Users, id \in 1..MaxBookings : SCancel(u, id)
    \/ \E u \in Users : SListBookings(u)
    \/ \E u \in Users, roomId \in 1..MaxSearchRoom, s \in Stays :
          MCreateCheck(u, roomId, s[1], s[2], TRUE)
    \/ \E p \in BagToSet(pending) : MCreateInsert(p)
    \/ \E u \in Users, id \in 1..MaxBookings : MCancelFind(u, id)
    \/ \E p \in BagToSet(pending) : MCancelSave(p)
    \/ \E u \in Users : MListBookings(u)

SpecList == InitList /\ [][NextList]_vars

\* C13: the booking list of a user is answered 200 with exactly that
\* user's bookings, confirmed and cancelled alike, each once and none of
\* another user, in order of checkIn descending, each carrying the name and
\* nightly price of its room; and the ledger is left as it was.
C13_ListOwnBookings ==
    [][\A u \in Users :
          (SListBookings(u) \/ MListBookings(u)) =>
              LET rows == resp'.bookings
                  N    == 1..Len(rows)
              IN  /\ resp'.status = 200
                  /\ { rows[m].id : m \in N } = OwnedBy(bookings, u)
                  /\ Len(rows) = Cardinality(OwnedBy(bookings, u))
                  /\ \A m \in N :
                        /\ rows[m].userId = u
                        /\ rows[m].checkIn = bookings[rows[m].id].checkIn
                        /\ rows[m].checkOut = bookings[rows[m].id].checkOut
                        /\ rows[m].status = bookings[rows[m].id].status
                        /\ rows[m].roomId = bookings[rows[m].id].roomId
                        /\ rows[m].roomName = rooms[rows[m].roomId].name
                        /\ rows[m].pricePerNight = rooms[rows[m].roomId].pricePerNight
                  /\ \A m \in N, n \in N :
                        m < n => rows[m].checkIn >= rows[n].checkIn
                  /\ UNCHANGED <<rooms, bookings, pending>>]_vars

(* ----------------------- bootstrap, run again ------------------------- *)
\* The server is started on a fresh database and then started again, each
\* bootstrap finishing before the next begins, while one user books,
\* cancels and searches room 1.
MaxBoots == 3

\* a database no bootstrap has run on yet
InitBoot ==
    /\ variant \in {"sqlite", "mongo"}
    /\ rooms = << >>
    /\ boot = [runs |-> 0, seeding |-> FALSE]
    /\ bookings = << >>
    /\ today = 1
    /\ resp = Response("none", 0, "")
    /\ pending = EmptyBag
    /\ AccountsInit
    /\ ConnectionInit
    /\ probe = Probe(0, 0, 0, 0)

\* better-sqlite3 build: SELECT COUNT(*) FROM rooms, and the three inserts
\* when it is 0, all at module load
SBootstrap ==
    /\ variant = "sqlite"
    /\ boot.runs < MaxBoots
    /\ rooms' = SeedIfEmpty(rooms)
    /\ boot' = [boot EXCEPT !.runs = @ + 1]
    /\ UNCHANGED <<variant, bookings, today, resp, pending,
                   users, registering, cached, promises, calls, probe>>

\* MongoDB build: await Room.countDocuments(); go on to insert when it is 0
MBootCount ==
    /\ variant = "mongo"
    /\ boot.runs < MaxBoots
    /\ ~boot.seeding
    /\ boot' = IF Len(rooms) = 0
               THEN [boot EXCEPT !.seeding = TRUE]
               ELSE [boot EXCEPT !.runs = @ + 1]
    /\ UNCHANGED <<variant, rooms, bookings, today, resp, pending,
                   users, registering, cached, promises, calls, probe>>

\* MongoDB build: await Room.insertMany([...]) adds the three rooms to
\* whatever the collection holds by now
MBootInsert ==
    /\ variant = "mongo"
    /\ boot.seeding
    /\ rooms' = rooms \o SeedRooms
    /\ boot' = [runs |-> boot.runs + 1, seeding |-> FALSE]
    /\ UNCHANGED <<variant, bookings, today, resp, pending,
                   users, registering, cached, promises, calls, probe>>

\* the better-sqlite3 build serves requests only once its bootstrap has run
\* (app.listen comes after it); the MongoDB build does not await its seeding
NextBoot ==
    \/ SBootstrap
    \/ boot.runs >= 1 /\ \E s \in Stays : SCreateBooking(1, 1, s[1], s[2], TRUE)
    \/ boot.runs >= 1 /\ \E id \in 1..MaxBookings : SCancel(1, id)
    \/ boot.runs >= 1 /\ \E s \in Stays : SSearch(s[1], s[2], 0)
    \/ MBootCount
    \/ MBootInsert
    \/ \E s \in Stays : MCreateCheck(1, 1, s[1], s[2], TRUE)
    \/ \E p \in BagToSet(pending) : MCreateInsert(p)
    \/ \E id \in 1..MaxBookings : MCancelFind(1, id)
    \/ \E p \in BagToSet(pending) : MCancelSave(p)
    \/ \E s \in Stays : MSearch(s[1], s[2], 0)

SpecBoot == InitBoot /\ [][NextBoot]_vars

\* C14: with bootstraps run one after another, the catalog changes only in
\* a bootstrap that found it empty, which leaves exactly the three starter
\* rooms; after any number of bootstraps the catalog is those three rooms,
\* never duplicated; no other step adds, changes or removes a room.
C14_SeedIdempotent ==
    [][/\ rooms' # rooms =>
            /\ rooms = << >>
            /\ rooms' = SeedRooms
            /\ boot'.runs = boot.runs + 1
       /\ boot'.runs >= 1 => rooms' = SeedRooms]_vars

\* the bootstrap has run at least twice, bookings were taken in between, and
\* the catalog is the three starter rooms
C14_Witness ==
    /\ boot.runs >= 2
    /\ ~boot.seeding
    /\ Len(bookings) >= 1
    /\ rooms = SeedRooms

(* ------------------------- concurrent cancels ------------------------- *)
\* C15: cancellation is a compare-and-swap on the status: whatever the
\* interleaving of cancel requests by the owner on one confirmed, future
\* booking, a cancel that answers { ok: true } found the booking confirmed
\* at the moment of its write and made it cancelled, so exactly one of them
\* answers ok and the status is never written onto a booking that is not
\* confirmed.
C15_CancelCompareAndSwap ==
    [][(\/ variant = "sqlite" /\ Answered("cancel") /\ resp'.status = 200
        \/ Completed("cancel") # {})
          => /\ bookings[resp'.bookingId].status = "confirmed"
             /\ bookings'[resp'.bookingId].status = "cancelled"]_vars

(* ------------------ search and createBooking agree -------------------- *)
\* C16: in one and the same state, a complete createBooking request for an
\* existing room and a date range is refused with 409 Conflict exactly when
\* a search for that range, with a party the room can hold, leaves the room
\* out of its result.
C16_SearchCreateAgree ==
    [][\A u \in Users, roomId \in 1..MaxReqRoom,
          checkIn \in 1..MaxDate, checkOut \in 1..MaxDate :
          LET omitted == roomId \notin AvailableRooms(rooms, bookings,
                                                     checkIn, checkOut, 1)
              refused == /\ resp'.op = "create"
                         /\ resp'.status = 409
                         /\ bookings' = bookings
                         /\ pending' = pending
          IN  (\/ SCreateBooking(u, roomId, checkIn, checkOut, TRUE)
               \/ MCreateCheck(u, roomId, checkIn, checkOut, TRUE))
                  => (refused <=> omitted)]_vars

(* ------------- createBooking requests of every shape ------------------ *)
\* One user sends createBooking requests for room 1, for a room that does
\* not exist and with no room at all, with dates present or missing, in
\* either order, and with or without the contact fields, and cancels.
MaxOrderDate == 2

OrderDates == 0..MaxOrderDate

InitOrder == Init

NextOrder ==
    \/ \E roomId \in ReqRoomIds, checkIn \in OrderDates, checkOut \in OrderDates,
          contact \in BOOLEAN : SCreateBooking(1, roomId, checkIn, checkOut, contact)
    \/ \E id \in 1..MaxBookings : SCancel(1, id)
    \/ \E roomId \in ReqRoomIds, checkIn \in OrderDates, checkOut \in OrderDates,
          contact \in BOOLEAN : MCreateCheck(1, roomId, checkIn, checkOut, contact)
    \/ \E p \in BagToSet(pending) : MCreateInsert(p)
    \/ \E id \in 1..MaxBookings : MCancelFind(1, id)
    \/ \E p \in BagToSet(pending) : MCancelSave(p)

SpecOrder == InitOrder /\ [][NextOrder]_vars

\* C17: createBooking checks in a fixed order.  A request missing roomId,
\* checkIn, checkOut or a contact field is refused with 400 "Missing fields"
\* whether or not its room exists or its dates conflict; a request with every
\* field whose room does not exist is refused with 404; and 409 is answered
\* only to a request with every field for a room that exists.  A refused
\* request changes nothing.
C17_PreconditionOrder ==
    [][\A roomId \in ReqRoomIds, checkIn \in OrderDates, checkOut \in OrderDates,
          contact \in BOOLEAN :
          (\/ SCreateBooking(1, roomId, checkIn, checkOut, contact)
           \/ MCreateCheck(1, roomId, checkIn, checkOut, contact)) =>
              LET complete == roomId # 0 /\ checkIn # 0 /\ checkOut # 0 /\ contact
                  refused(status) == /\ resp'.op = "create"
                                     /\ resp'.status = status
                                     /\ bookings' = bookings
                                     /\ pending' = pending
              IN  /\ ~complete => refused(400) /\ resp'.error = "Missing fields"
                  /\ (complete /\ ~RoomExists(rooms, roomId)) => refused(404)
                  /\ refused(409) => complete /\ RoomExists(rooms, roomId)]_vars

\* a request was refused for missing fields while room 1 held a confirmed
\* booking and a cancelled one
C17_Witness ==
    /\ resp.op = "create"
    /\ resp.status = 400
    /\ resp.error = "Missing fields"
    /\ Confirmed(bookings, 1) # {}
    /\ Cancelled(bookings, 1) # {}

(* -------------------- dbConnect, src/lib/db.js ------------------------ *)
\* The MongoDB build from the load of src/lib/db.js on: callers enter
\* dbConnect concurrently and again after it has returned or thrown, and
\* the connection attempt is settled, either way, by the driver.
\* `promises` holds the state of the promise of each mongoose.connect call
\* made so far, in call order, so its length counts those calls; a
\* connection is named by the place of the call that made it.
MaxConnects == 3

InitDb ==
    /\ LedgerInit
    /\ variant = "mongo"
    /\ AccountsInit
    /\ cached = EmptyCache
    /\ promises = << >>
    /\ calls = [c \in Callers |-> Call("idle", 0, 0)]
    /\ probe = Probe(0, 0, 0, 0)

\* the function with only its first test: a call that finds no connection
\* connects, whether or not an attempt is already under way
DbConnectCall_ConnOnly(c) ==
    /\ calls[c].pc # "awaiting"
    /\ IF cached.conn # 0
       THEN /\ calls' = [calls EXCEPT ![c] = Call("returned", 0, cached.conn)]
            /\ UNCHANGED <<cached, promises>>
       ELSE /\ Len(promises) < MaxConnects
            /\ promises' = Append(promises, "pending")
            /\ cached' = [cached EXCEPT !.promise = Len(promises) + 1]
            /\ calls' = [calls EXCEPT ![c] = Call("awaiting", Len(promises) + 1, 0)]
    /\ UNCHANGED <<variant, rooms, bookings, today, resp, pending,
                   boot, users, registering, probe>>

\* dbConnect from its entry to its return of the cached connection or to
\* its await: no await lies between the test of cached.promise and its
\* assignment
DbConnectCall(c) ==
    /\ calls[c].pc # "awaiting"
    /\ IF cached.conn # 0
       THEN /\ calls' = [calls EXCEPT ![c] = Call("returned", 0, cached.conn)]
            /\ UNCHANGED <<cached, promises>>
       ELSE IF cached.promise = 0
       THEN /\ Len(promises) < MaxConnects
            /\ promises' = Append(promises, "pending")
            /\ cached' = [cached EXCEPT !.promise = Len(promises) + 1]
            /\ calls' = [calls EXCEPT ![c] = Call("awaiting", Len(promises) + 1, 0)]
       ELSE /\ calls' = [calls EXCEPT ![c] = Call("awaiting", cached.promise, 0)]
            /\ UNCHANGED <<cached, promises>>
    /\ UNCHANGED <<variant, rooms, bookings, today, resp, pending,
                   boot, users, registering, probe>>

\* the driver settles a connection attempt: it connects or it fails
ConnectSettle(i, outcome) ==
    /\ i \in 1..Len(promises)
    /\ promises[i] = "pending"
    /\ promises' = [promises EXCEPT ![i] = outcome]
    /\ UNCHANGED <<variant, rooms, bookings, today, resp, pending,
                   boot, users, registering, cached, calls, probe>>

\* cached.conn = await cached.promise; return cached.conn  -- or the
\* rejection thrown out of the await
DbConnectResume(c) ==
    /\ calls[c].pc = "awaiting"
    /\ promises[calls[c].awaited] # "pending"
    /\ IF promises[calls[c].awaited] = "resolved"
       THEN /\ cached' = [cached EXCEPT !.conn = calls[c].awaited]
            /\ calls' = [calls EXCEPT ![c] =
                            Call("returned", calls[c].awaited, calls[c].awaited)]
       ELSE /\ calls' = [calls EXCEPT ![c] = Call("threw", calls[c].awaited, 0)]
            /\ UNCHANGED cached
    /\ UNCHANGED <<variant, rooms, bookings, today, resp, pending,
                   boot, users, registering, promises, probe>>

NextDb ==
    \/ \E c \in Callers : DbConnectCall(c)
    \/ \E i \in 1..MaxConnects, outcome \in {"resolved", "rejected"} :
          ConnectSettle(i, outcome)
    \/ \E c \in Callers : DbConnectResume(c)

SpecDb == InitDb /\ [][NextDb]_vars

\* C18: whatever the interleaving of concurrent and repeated calls,
\* dbConnect invokes mongoose.connect at most once, and all calls that have
\* returned were handed one and the same connection.
C18_SingleConnection ==
    /\ Len(promises) <= 1
    /\ \A c \in Callers, d \in Callers :
          (calls[c].pc = "returned" /\ calls[d].pc = "returned")
              => calls[c].result # 0 /\ calls[c].result = calls[d].result

\* two calls that awaited the connection attempt together and a later call
\* that found the connection cached have all returned
C18_Witness ==
    \E c \in Callers, d \in Callers, e \in Callers :
        /\ c # d
        /\ calls[c] = Call("returned", 1, 1)
        /\ calls[d] = Call("returned", 1, 1)
        /\ calls[e] = Call("returned", 0, 1)

(* ----------------------------- register ------------------------------- *)
\* Register requests for a few email addresses (0 is a missing email), with
\* or without the name and password, in both builds; in the MongoDB build
\* any number up to MaxInFlight of them stand between lookup and insert.
MaxEmail == 3
MaxAccounts == 4

Emails == 0..MaxEmail

\* SELECT id FROM users WHERE email = ?   /   User.findOne({ email })
FindUser(us, email) == { i \in 1..Len(us) : us[i] = email }

\* a users table with no UNIQUE on email: no insert is ever rejected
UniqueViolation_NoIndex(us, email) == FALSE

\* email TEXT NOT NULL UNIQUE   /   email: { type: String, unique: true }:
\* the store rejects the insert of an email it already holds
UniqueViolation(us, email) == \E i \in 1..Len(us) : us[i] = email

\* POST /api/register, better-sqlite3 build; a rejected INSERT throws out of
\* the handler, which the framework answers with 500
SRegister(email, creds) ==
    /\ variant = "sqlite"
    /\ IF email = 0 \/ ~creds
       THEN /\ resp' = Response("register", 400, "Missing fields")
            /\ UNCHANGED users
       ELSE IF FindUser(users, email) # {}
       THEN /\ resp' = Response("register", 409, "Email already registered")
            /\ UNCHANGED users
       ELSE IF UniqueViolation(users, email)
       THEN /\ resp' = Response("register", 500, "UNIQUE constraint failed: users.email")
            /\ UNCHANGED users
       ELSE /\ Len(users) < MaxAccounts
            /\ users' = Append(users, email)
            /\ resp' = Response("register", 200, "")
    /\ UNCHANGED <<variant, rooms, bookings, today, pending,
                   boot, registering, cached, promises, calls, probe>>

\* POST /api/register, MongoDB build, up to the awaits of bcrypt.hash and
\* User.create: the field check and User.findOne
MRegisterFind(email, creds) ==
    /\ variant = "mongo"
    /\ IF email = 0 \/ ~creds
       THEN /\ resp' = Response("register", 400, "Missing fields")
            /\ UNCHANGED registering
       ELSE IF FindUser(users, email) # {}
       THEN /\ resp' = Response("register", 409, "Email already registered")
            /\ UNCHANGED registering
       ELSE /\ BagCardinality(registering) < MaxInFlight
            /\ registering' = registering (+) SetToBag({email})
            /\ UNCHANGED resp
    /\ UNCHANGED <<variant, rooms, bookings, today, pending,
                   boot, users, cached, promises, calls, probe>>

\* User.create completes, or is rejected by the unique index and the catch
\* answers 500 with the driver's message
MRegisterCreate(email) ==
    /\ variant = "mongo"
    /\ email \in BagToSet(registering)
    /\ registering' = registering (-) SetToBag({email})
    /\ IF UniqueViolation(users, email)
       THEN /\ resp' = Response("register", 500, "E11000 duplicate key error")
            /\ UNCHANGED users
       ELSE /\ Len(users) < MaxAccounts
            /\ users' = Append(users, email)
            /\ resp' = Response("register", 200, "")
    /\ UNCHANGED <<variant, rooms, bookings, today, pending,
                   boot, cached, promises, calls, probe>>

InitRegister == Init

NextRegister ==
    \/ \E email \in Emails, creds \in BOOLEAN : SRegister(email, creds)
    \/ \E email \in Emails, creds \in BOOLEAN : MRegisterFind(email, creds)
    \/ \E email \in BagToSet(registering) : MRegisterCreate(email)

SpecRegister == InitRegister /\ [][NextRegister]_vars

\* C19: whatever the interleaving of register requests, lookup and insert
\* being separate steps in the MongoDB build, no two stored users have the
\* same email, and the stored users change only by the addition of one user
\* whose email was not stored: a register request for a stored email adds
\* no user.
C19_EmailsUnique ==
    [][/\ \A i \in 1..Len(users'), j \in 1..Len(users') :
             i # j => users'[i] # users'[j]
       /\ users' # users =>
             \E email \in 1..MaxEmail :
                 /\ FindUser(users, email) = {}
                 /\ users' = Append(users, email)]_vars

\* two register requests for one email both passed the lookup; the insert
\* of the second was rejected and the email is stored once
C19_Witness ==
    /\ variant = "mongo"
    /\ resp.op = "register"
    /\ resp.status = 500
    /\ Len(users) >= 1

====
